---------------------------- MODULE Spec2Model ----------------------------
(***************************************************************************)
(* A model of scraper.py (UNFPA job vacancies scraper): the text           *)
(* normalizer, the eligibility classifier, the candidate merger, the       *)
(* identifier generator, the page loop of scrape_jobs and the feed         *)
(* reconciliation of generate_rss / load_existing_feed.                    *)
(*                                                                         *)
(* Text is modelled by TLA+ strings, read character by character with      *)
(* SubSeq.  TLA+ string literals are ASCII-only, so the three non-ASCII    *)
(* code points of the model's alphabet are written with a stand-in:        *)
(*      "~"  is U+2013 EN DASH                                             *)
(*      "^"  is U+00A0 NO-BREAK SPACE                                      *)
(*      "#"  is U+FF16 FULLWIDTH DIGIT SIX                                 *)
(***************************************************************************)
EXTENDS Integers, Sequences, FiniteSets, TLC

VARIABLES
    pc,         \* position of the program: between runs, or inside a run
    driver,     \* the browser session: "none", "open", "closed"
    rssFile,    \* the persisted feed file RSS_FILE
    included,   \* scrape_jobs: the in-run accumulation of included postings
    page,       \* scrape_jobs: the page counter
    all_jobs,   \* scrape_jobs: the merged candidates of the current page
    idx,        \* scrape_jobs: how many of all_jobs the for loop has consumed
    existing,   \* generate_rss: the loaded link -> item mapping, in insertion order
    now,        \* the clock, in ticks of the RFC-2822 rendering (one second)
    site,       \* the pages the careers site can serve in this behaviour
    log,        \* ghost: what the current run did (classified, failures)
    prev,       \* ghost: the new_jobs of the last completed generate_rss
    call,       \* the arguments of a pure function under check
    ret         \* its result

vars == <<pc, driver, rssFile, included, page, all_jobs, idx, existing, now,
          site, log, prev, call, ret>>

-----------------------------------------------------------------------------
(* Characters *)

Char(s, i) == SubSeq(s, i, i)

LowerLetters == "abcdefghijklmnopqrstuvwxyz"

UpperLetters == "ABCDEFGHIJKLMNOPQRSTUVWXYZ"

Digits == "0123456789"

CharsOf(s) == {Char(s, i) : i \in 1..Len(s)}

LowerSet == CharsOf(LowerLetters)

UpperSet == CharsOf(UpperLetters)

DigitSet == CharsOf(Digits)

\* str.isspace / regex \s on the model's alphabet (U+00A0 is white space).
IsSpace(c) == c \in {" ", "\t", "\n", "^"}

\* regex \d (the fullwidth six is a Unicode decimal digit).
IsDigit(c) == c \in DigitSet \/ c = "#"

\* regex \w: letters, digits and the underscore.
IsWord(c) == c \in LowerSet \/ c \in UpperSet \/ IsDigit(c) \/ c = "_"

\* unicodedata.normalize("NFKD", c) for one character of the alphabet.
NfkdChar(c) == IF c = "^" THEN " " ELSE IF c = "#" THEN "6" ELSE c

\* re.sub(r"[\u2010-\u2015\u2212\uFE58\uFE63\uFF0D]", "-", c) for one character.
DashChar(c) == IF c = "~" THEN "-" ELSE c

\* str.upper for one character.
UpperChar(c) ==
    IF c \in LowerSet
    THEN Char(UpperLetters, CHOOSE i \in 1..Len(LowerLetters) : Char(LowerLetters, i) = c)
    ELSE c

RECURSIVE Nfkd(_)
Nfkd(s) == IF s = "" THEN "" ELSE NfkdChar(Char(s, 1)) \o Nfkd(SubSeq(s, 2, Len(s)))

RECURSIVE DashSub(_)
DashSub(s) == IF s = "" THEN "" ELSE DashChar(Char(s, 1)) \o DashSub(SubSeq(s, 2, Len(s)))

RECURSIVE Upper(_)
Upper(s) == IF s = "" THEN "" ELSE UpperChar(Char(s, 1)) \o Upper(SubSeq(s, 2, Len(s)))

RECURSIVE LStrip(_)
LStrip(s) == IF s # "" /\ IsSpace(Char(s, 1)) THEN LStrip(SubSeq(s, 2, Len(s))) ELSE s

RECURSIVE RStrip(_)
RStrip(s) == IF s # "" /\ IsSpace(Char(s, Len(s))) THEN RStrip(SubSeq(s, 1, Len(s) - 1)) ELSE s

\* str.strip()
Strip(s) == RStrip(LStrip(s))

\* re.sub(r"\s+", " ", s)
RECURSIVE CollapseSpaces(_)
CollapseSpaces(s) ==
    IF s = "" THEN ""
    ELSE IF IsSpace(Char(s, 1))
         THEN " " \o CollapseSpaces(LStrip(s))
         ELSE Char(s, 1) \o CollapseSpaces(SubSeq(s, 2, Len(s)))

\* s has pat at position i.
StartsAt(s, i, pat) == i + Len(pat) - 1 <= Len(s) /\ SubSeq(s, i, i + Len(pat) - 1) = pat

\* pat in s
Contains(s, pat) == \E i \in 1..(Len(s) + 1) : StartsAt(s, i, pat)

\* regex \b before the character at position i (i = Len(s) + 1: at the end).
WordBoundary(s, i) ==
    (i > 1 /\ IsWord(Char(s, i - 1))) # (i <= Len(s) /\ IsWord(Char(s, i)))

\* The position after the longest run of digits (\d+, greedy) starting at i.
RECURSIVE DigitsEnd(_, _)
DigitsEnd(s, i) == IF i <= Len(s) /\ IsDigit(Char(s, i)) THEN DigitsEnd(s, i + 1) ELSE i

\* The position after the longest run of white space (\s+, greedy) starting at i.
RECURSIVE SpacesEnd(_, _)
SpacesEnd(s, i) == IF i <= Len(s) /\ IsSpace(Char(s, i)) THEN SpacesEnd(s, i + 1) ELSE i

-----------------------------------------------------------------------------
(* Constants *)

MAX_INCLUDED == 50

INCLUDED_GRADES == {"P-1", "P-2", "P-3", "P-4", "P-5", "D-1", "D-2"}

EXCLUDED_GRADE_PREFIXES == {"G-", "SB-", "LSC-"}

EXCLUDED_NO_GRADES == {"NOA", "NOB", "NOC", "NOD", "NO-A", "NO-B", "NO-C", "NO-D"}

CONSULTANT_KEYWORDS == {"CONSULTANT", "CONSULTANCY"}

INTERN_KEYWORDS == {"INTERN", "FELLOWSHIP", "FELLOW"}

\* The alternation (P|D|G|SB|LSC|NO) of the two grade patterns, in its order.
GradeFamilies == <<"P", "D", "G", "SB", "LSC", "NO">>

-----------------------------------------------------------------------------
(* Normalizer *)

normalize(text) ==
    IF text = "" THEN "" ELSE CollapseSpaces(Strip(Upper(DashSub(Nfkd(text)))))

\* The alternative of (P|D|G|SB|LSC|NO) that matches at i, "" when none does.
FamilyAt(s, i) ==
    LET hits == {k \in 1..Len(GradeFamilies) : StartsAt(s, i, GradeFamilies[k])}
    IN  IF hits = {} THEN ""
        ELSE GradeFamilies[CHOOSE k \in hits : \A m \in hits : k <= m]

\* 0, or the position after a match of \b(P|D|G|SB|LSC|NO)(\d+)\b at i.
CompactMatchEnd(s, i) ==
    LET f == FamilyAt(s, i)
        d == i + Len(f)
        e == DigitsEnd(s, d)
    IN  IF WordBoundary(s, i) /\ f # "" /\ e > d /\ WordBoundary(s, e) THEN e ELSE 0

\* 0, or the position after a match of \b(P|D|G|SB|LSC|NO)\s+(\d+)\b at i.
SpacedMatchEnd(s, i) ==
    LET f == FamilyAt(s, i)
        w == i + Len(f)
        d == SpacesEnd(s, w)
        e == DigitsEnd(s, d)
    IN  IF WordBoundary(s, i) /\ f # "" /\ d > w /\ e > d /\ WordBoundary(s, e) THEN e ELSE 0

RECURSIVE SubCompact(_, _)
SubCompact(s, i) ==
    IF i > Len(s) THEN ""
    ELSE LET e == CompactMatchEnd(s, i)
             f == FamilyAt(s, i)
         IN  IF e > 0
             THEN f \o "-" \o SubSeq(s, i + Len(f), e - 1) \o SubCompact(s, e)
             ELSE Char(s, i) \o SubCompact(s, i + 1)

RECURSIVE SubSpaced(_, _)
SubSpaced(s, i) ==
    IF i > Len(s) THEN ""
    ELSE LET e == SpacedMatchEnd(s, i)
             f == FamilyAt(s, i)
         IN  IF e > 0
             THEN f \o "-" \o SubSeq(s, SpacesEnd(s, i + Len(f)), e - 1) \o SubSpaced(s, e)
             ELSE Char(s, i) \o SubSpaced(s, i + 1)

expand_compact_grade(text) == SubCompact(text, 1)

expand_spaced_grade(text) == SubSpaced(text, 1)

\* A variant of normalize_grade without the spaced-grade expansion ("G 6"
\* stays "G 6").
normalize_grade_compact_only(raw) == expand_compact_grade(normalize(raw))

normalize_grade(raw) == expand_spaced_grade(expand_compact_grade(normalize(raw)))

-----------------------------------------------------------------------------
(* EligibilityClassifier *)

contains_consultant(text) == \E kw \in CONSULTANT_KEYWORDS : Contains(normalize(text), kw)

contains_intern(text) == \E kw \in INTERN_KEYWORDS : Contains(normalize(text), kw)

\* re.compile(r"\b" + re.escape(prefix) + r"\d+\b").search(s)
GradeTokenSearch(s, prefix) ==
    \E i \in 1..Len(s) :
        /\ WordBoundary(s, i)
        /\ StartsAt(s, i, prefix)
        /\ DigitsEnd(s, i + Len(prefix)) > i + Len(prefix)
        /\ WordBoundary(s, DigitsEnd(s, i + Len(prefix)))

is_excluded_grade(grade_norm) ==
    \/ \E prefix \in EXCLUDED_GRADE_PREFIXES :
          Contains(grade_norm, prefix) /\ GradeTokenSearch(grade_norm, prefix)
    \/ \E no \in EXCLUDED_NO_GRADES : Contains(grade_norm, no)

is_included_grade(grade_norm) == \E g \in INCLUDED_GRADES : Contains(grade_norm, g)

\* A variant of should_include that lets an included grade decide before the
\* consultant keywords are looked at.
should_include_grade_first(title, grade, contract_type, category) ==
    LET all_fields == title \o " " \o grade \o " " \o contract_type \o " " \o category
        grade_norm == normalize_grade(grade)
    IN  IF is_excluded_grade(grade_norm) THEN FALSE
        ELSE IF is_included_grade(grade_norm) THEN TRUE
        ELSE IF contains_consultant(all_fields) THEN FALSE
        ELSE contains_intern(all_fields)

should_include(title, grade, contract_type, category) ==
    LET all_fields == title \o " " \o grade \o " " \o contract_type \o " " \o category
        grade_norm == normalize_grade(grade)
    IN  IF contains_consultant(all_fields) THEN FALSE
        ELSE IF is_excluded_grade(grade_norm) THEN FALSE
        ELSE IF is_included_grade(grade_norm) THEN TRUE
        ELSE IF contains_intern(grade) \/ contains_intern(contract_type)
                    \/ contains_intern(category) THEN TRUE
        ELSE IF contains_intern(title) THEN TRUE
        ELSE FALSE

-----------------------------------------------------------------------------
(* IdentifierGenerator *)

\* hashlib.md5(url.encode()).hexdigest()[:16], tabulated for the URLs the model's
\* site serves (the values are those of MD5 itself).
md5_hexdigest16(url) ==
    CASE url = "https://www.unfpa.org/jobs/programme-analyst" -> "f09cb752f6debb35"
      [] url = "https://www.unfpa.org/jobs/driver" -> "9cab896bce1a99d6"
      [] url = "https://www.unfpa.org/jobs/senior-consultant" -> "9705ac867ab2e73e"
      [] url = "https://www.unfpa.org/jobs/vacancy-1" -> "f7636494b6dc203b"
      [] url = "https://www.unfpa.org/jobs/vacancy-2" -> "3e26449c5e4243dc"
      [] url = "https://www.unfpa.org/jobs/vacancy-3" -> "3c6edecf12804144"
      [] url = "https://www.unfpa.org/jobs/vacancy-4" -> "b7851737c5fdc7f5"
      [] url = "https://www.unfpa.org/jobs/vacancy-5" -> "29b269de2681c59a"
      [] url = "https://www.unfpa.org/jobs/vacancy-6" -> "bc2983057969a9cb"
      [] url = "https://www.unfpa.org/jobs/vacancy-7" -> "c03dda3ba7d0373a"
      [] url = "https://www.unfpa.org/jobs/vacancy-8" -> "f513c0d8970c4e04"
      [] url = "https://www.unfpa.org/jobs/vacancy-9" -> "e6c701d0fb6b5e41"
      [] url = "https://www.unfpa.org/jobs/vacancy-10" -> "07643243c4f6d06a"
      [] url = "https://www.unfpa.org/jobs/vacancy-11" -> "4d91bb520be03305"
      [] url = "https://www.unfpa.org/jobs/vacancy-12" -> "8a49d93a2e594b1b"
      [] url = "https://www.unfpa.org/jobs/vacancy-13" -> "549dd025b8c46705"
      [] url = "https://www.unfpa.org/jobs/vacancy-14" -> "4d122da6bfcb753f"
      [] url = "https://www.unfpa.org/jobs/vacancy-15" -> "462511b2cca079e8"
      [] url = "https://www.unfpa.org/jobs/vacancy-16" -> "4ba9b22b20c763a1"
      [] url = "https://www.unfpa.org/jobs/vacancy-17" -> "b8c5fc5bc9bb06bf"
      [] url = "https://www.unfpa.org/jobs/vacancy-18" -> "68abfb863e232c34"
      [] url = "https://www.unfpa.org/jobs/vacancy-19" -> "d8e941698ef4886b"
      [] url = "https://www.unfpa.org/jobs/vacancy-20" -> "580a799e90d44f39"
      [] url = "https://www.unfpa.org/jobs/vacancy-21" -> "f13579e21001e94a"
      [] url = "https://www.unfpa.org/jobs/vacancy-22" -> "dfba5e4def20b564"
      [] url = "https://www.unfpa.org/jobs/vacancy-23" -> "7568ac46c137a21c"
      [] url = "https://www.unfpa.org/jobs/vacancy-24" -> "528e1aed4e7567ae"
      [] url = "https://www.unfpa.org/jobs/vacancy-25" -> "ba7257633fc412f8"
      [] url = "https://www.unfpa.org/jobs/vacancy-26" -> "b243153c8b3b99c5"
      [] url = "https://www.unfpa.org/jobs/vacancy-27" -> "1fac6848fe5a27d7"
      [] url = "https://www.unfpa.org/jobs/vacancy-28" -> "278b0d3dde9a36f9"
      [] url = "https://www.unfpa.org/jobs/vacancy-29" -> "268c963224560f30"
      [] url = "https://www.unfpa.org/jobs/vacancy-30" -> "5191988746772282"
      [] url = "https://www.unfpa.org/jobs/vacancy-31" -> "10633d53965baef3"

HexDigits == "0123456789abcdef"

HexValue(c) == (CHOOSE i \in 1..Len(HexDigits) : Char(HexDigits, i) = c) - 1

\* Python integers are unbounded and TLC's are 32 bits wide: an integer is kept
\* as its limbs in base 10^4, least significant first (<<>> is 0).
LimbBase == 10000

RECURSIVE MulAdd(_, _, _)
MulAdd(n, m, a) ==
    IF n = <<>>
    THEN IF a = 0 THEN <<>> ELSE <<a % LimbBase>> \o MulAdd(<<>>, m, a \div LimbBase)
    ELSE <<(Head(n) * m + a) % LimbBase>> \o MulAdd(Tail(n), m, (Head(n) * m + a) \div LimbBase)

\* int(h, 16)
RECURSIVE IntOfHex(_, _)
IntOfHex(h, acc) ==
    IF h = "" THEN acc
    ELSE IntOfHex(SubSeq(h, 2, Len(h)), MulAdd(acc, 16, HexValue(Char(h, 1))))

\* n % 10000000000000000
Mod10e16(n) == SubSeq(n, 1, IF Len(n) < 4 THEN Len(n) ELSE 4)

\* One limb as its four decimal digits.
DigitOf(d) == Char(Digits, d + 1)

LimbStr(v) ==
    DigitOf(v \div 1000) \o DigitOf((v \div 100) % 10)
        \o DigitOf((v \div 10) % 10) \o DigitOf(v % 10)

RECURSIVE LimbsStr(_)
LimbsStr(n) == IF n = <<>> THEN "" ELSE LimbsStr(Tail(n)) \o LimbStr(Head(n))

RECURSIVE StripZeros(_)
StripZeros(s) == IF Len(s) > 1 /\ Char(s, 1) = "0" THEN StripZeros(SubSeq(s, 2, Len(s))) ELSE s

\* str(n)
IntStr(n) == IF n = <<>> THEN "0" ELSE StripZeros(LimbsStr(n))

\* A variant of zfill that does not pad.
zfill_none(s, width) == s

\* str.zfill(width)
RECURSIVE zfill(_, _)
zfill(s, width) == IF Len(s) >= width THEN s ELSE zfill("0" \o s, width)

generate_numeric_id(url) ==
    zfill(IntStr(Mod10e16(IntOfHex(md5_hexdigest16(url), <<>>))), 16)

-----------------------------------------------------------------------------
(* CandidateMerger *)

JobKeys == {"title", "link", "location", "grade", "contract_type", "closing_date", "category"}

\* sum(1 for v in job.values() if v)
Filled(job) == Cardinality({k \in JobKeys : job[k] # ""})

\* A variant of MergeOne in which an equally complete later candidate replaces
\* the stored one.
MergeOne_last_wins(by_link, job) ==
    IF \A i \in 1..Len(by_link) : by_link[i].link # job.link
    THEN Append(by_link, job)
    ELSE LET i == CHOOSE k \in 1..Len(by_link) : by_link[k].link = job.link
         IN  IF Filled(job) >= Filled(by_link[i])
             THEN [by_link EXCEPT ![i] = job]
             ELSE by_link

\* One iteration of the inner loop: by_link is the dict, as the sequence of its
\* values in insertion order (a replaced value keeps its key's position).
MergeOne(by_link, job) ==
    IF \A i \in 1..Len(by_link) : by_link[i].link # job.link
    THEN Append(by_link, job)
    ELSE LET i == CHOOSE k \in 1..Len(by_link) : by_link[k].link = job.link
         IN  IF Filled(job) > Filled(by_link[i])
             THEN [by_link EXCEPT ![i] = job]
             ELSE by_link

RECURSIVE MergeList(_, _)
MergeList(by_link, jobs) ==
    IF jobs = <<>> THEN by_link ELSE MergeList(MergeOne(by_link, Head(jobs)), Tail(jobs))

RECURSIVE MergeLists(_, _)
MergeLists(by_link, lists) ==
    IF lists = <<>> THEN by_link
    ELSE MergeLists(MergeList(by_link, Head(lists)), Tail(lists))

merge_jobs(lists) == MergeLists(<<>>, lists)

-----------------------------------------------------------------------------
(* Feed items *)

build_description(job) ==
    "UNFPA has a vacancy for the position of " \o job.title \o ". Location: "
        \o job.location \o "."
        \o (IF job.grade # "" THEN " Grade: " \o job.grade \o "." ELSE "")
        \o (IF job.contract_type # "" THEN " Contract type: " \o job.contract_type \o "." ELSE "")
        \o (IF job.closing_date # "" THEN " Closing date: " \o job.closing_date \o "." ELSE "")

\* The item generate_rss adds for a new job at time now_rfc2822.
NewItem(job, now_rfc2822) ==
    [title |-> job.title, link |-> job.link, description |-> build_description(job),
     guid |-> generate_numeric_id(job.link), pubDate |-> now_rfc2822]

-----------------------------------------------------------------------------
(* load_existing_feed *)

\* existing[link] = {...}: the dict as the sequence of its values in insertion
\* order; assigning to a key it holds replaces the value in place.
DictPut(d, item) ==
    IF \A i \in 1..Len(d) : d[i].link # item.link
    THEN Append(d, item)
    ELSE [d EXCEPT ![CHOOSE k \in 1..Len(d) : d[k].link = item.link] = item]

\* The loop over channel.findall("item"): the element texts are stripped, an
\* item without link text is skipped.
RECURSIVE LoadItems(_, _)
LoadItems(d, items) ==
    IF items = <<>> THEN d
    ELSE LET it == Head(items)
             link == Strip(it.link)
             entry == [title |-> Strip(it.title), link |-> link,
                       description |-> Strip(it.description),
                       guid |-> Strip(it.guid), pubDate |-> it.pubDate]
         IN  LoadItems(IF it.link # "" THEN DictPut(d, entry) ELSE d, Tail(items))

\* A missing file and a file ET.parse rejects both give the empty dict.
load_existing_feed(file) ==
    IF ~file.exists THEN <<>>
    ELSE IF ~file.wellformed THEN <<>>
    ELSE LoadItems(<<>>, file.items)

-----------------------------------------------------------------------------
(* The careers site: what the strategies find on the pages it serves *)

MaxRuns == 2

MaxPages == 2

MaxFailPoint == 1

Job(title, link, location, grade, contract_type, closing_date, category) ==
    [title |-> title, link |-> link, location |-> location, grade |-> grade,
     contract_type |-> contract_type, closing_date |-> closing_date,
     category |-> category]

\* strategy_b fills title and link only.
Bare(job) == Job(job.title, job.link, "", "", "", "", "")

LinkAnalyst == "https://www.unfpa.org/jobs/programme-analyst"

LinkDriver == "https://www.unfpa.org/jobs/driver"

LinkIntern == "https://www.unfpa.org/jobs/vacancy-19"

LinkConsultant == "https://www.unfpa.org/jobs/senior-consultant"

Analyst == Job("Programme Analyst", LinkAnalyst, "New York", "P-3", "Fixed Term", "", "")

\* The same posting as a later page shows it.
AnalystAgain == Job("Programme Analyst (re-advertised)", LinkAnalyst, "Geneva", "P3", "", "", "")

Driver == Job("Driver", LinkDriver, "Dakar", "G-5", "", "", "")

Intern == Job("Internship Programme", LinkIntern, "", "", "", "", "")

Consultant == Job("Senior Consultant", LinkConsultant, "", "P-4", "", "", "")

NoPage == [a |-> <<>>, b |-> <<>>, c |-> <<>>]

SmallPages ==
    { [a |-> <<Analyst, Driver>>, b |-> <<Bare(Analyst), Bare(Driver)>>, c |-> <<>>],
      [a |-> <<Intern>>, b |-> <<Bare(Intern)>>, c |-> <<AnalystAgain>>],
      [a |-> <<Consultant>>, b |-> <<>>, c |-> <<>>],
      NoPage }

RECURSIVE NatStr(_)
NatStr(n) == IF n < 10 THEN DigitOf(n) ELSE NatStr(n \div 10) \o DigitOf(n % 10)

Vacancy(i) ==
    Job("Internship " \o NatStr(i), "https://www.unfpa.org/jobs/vacancy-" \o NatStr(i),
        "", "", "Internship", "", "")

\* A long listing: n vacancies, found by strategy_a alone.
LongPage(n) == [a |-> [i \in 1..n |-> Vacancy(i)], b |-> <<>>, c |-> <<>>]

\* pages: what a page of the site may hold; last: how many pages it has;
\* visits: how many runs of the scraper the behaviour covers; endless: whether
\* find_next_page finds a link to click on every page, the last one included
\* (a pager whose "next" stays clickable and shows the last page again).
SmallSite == [pages |-> SmallPages, last |-> MaxPages, visits |-> MaxRuns,
              endless |-> FALSE]

LongSite == [pages |-> {LongPage(30), LongPage(20)}, last |-> 2, visits |-> 1,
             endless |-> FALSE]

\* A site of which every page lists postings the classifier excludes.
EndlessSite ==
    [pages |-> { [a |-> <<Driver, Consultant>>, b |-> <<Bare(Driver)>>, c |-> <<>>],
                 [a |-> <<Consultant>>, b |-> <<>>, c |-> <<Driver>>] },
     last |-> MaxPages, visits |-> 1, endless |-> TRUE]

\* What a strategy returns: its whole list, or, when it raises while working on
\* an element, what it had appended before (fail = the number of elements kept).
FailPoints(jobs) ==
    {k \in 0..MaxFailPoint : k < Len(jobs) \/ k = 0}

strategy_a(jobs, fail) == IF fail < 0 THEN jobs ELSE SubSeq(jobs, 1, fail)

strategy_b(jobs, fail) == IF fail < 0 THEN jobs ELSE SubSeq(jobs, 1, fail)

\* strategy_c catches an element's exception per container; its outer handler
\* is reached from find_elements only, before anything is appended.
strategy_c(jobs, fail) == IF fail < 0 THEN jobs ELSE <<>>

-----------------------------------------------------------------------------
(* The program *)

NoFile == [exists |-> FALSE, wellformed |-> TRUE, items |-> <<>>]

\* What a run leaves in its output and what the properties need of its history:
\* lists holds, for the page last processed, what each strategy returned and
\* whether it raised.
NoLog == [outcome |-> "none", failures |-> {}, classified |-> <<>>, clean |-> TRUE,
          lists |-> <<>>]

InitOn(s) ==
    /\ pc = "idle"
    /\ driver = "none"
    /\ rssFile = NoFile
    /\ included = <<>>
    /\ page = 0
    /\ all_jobs = <<>>
    /\ idx = 0
    /\ existing = <<>>
    /\ now = 0
    /\ site = s
    /\ log = NoLog
    /\ prev = <<>>
    /\ call = <<>>
    /\ ret = <<>>

Init == InitOn(SmallSite)

InitLong == InitOn(LongSite)

Failed(kind) == [log EXCEPT !.failures = @ \cup {kind}, !.clean = FALSE]

\* __main__ calls scrape_jobs, which creates the driver outside its try block:
\* an exception of create_driver ends the process.
StartRun ==
    /\ pc = "idle"
    /\ now < site.visits
    /\ now' = now + 1
    /\ included' = <<>>
    /\ page' = 0
    /\ all_jobs' = <<>>
    /\ idx' = 0
    /\ existing' = <<>>
    /\ \E ok \in BOOLEAN :
          IF ok
          THEN /\ driver' = "open"
               /\ pc' = "get"
               /\ log' = [NoLog EXCEPT !.outcome = "running", !.clean = log.clean]
          ELSE /\ driver' = "none"
               /\ pc' = "idle"
               /\ log' = [NoLog EXCEPT !.outcome = "crashed", !.failures = {"acquire"},
                                       !.clean = FALSE]
    /\ UNCHANGED <<rssFile, site, prev, call, ret>>

\* driver.get(BASE_URL) and the wait; its exception is caught by scrape_jobs.
LoadFirstPage ==
    /\ pc = "get"
    /\ \E ok \in BOOLEAN :
          IF ok
          THEN pc' = "loop" /\ log' = log
          ELSE pc' = "quit" /\ log' = Failed("acquire")
    /\ UNCHANGED <<driver, rssFile, included, page, all_jobs, idx, existing, now,
                   site, prev, call, ret>>

\* The head of the while loop: the three strategies on the current page, merged.
\* The counter page is only printed: on an endless site the model stops
\* counting at site.last.
ProcessPage ==
    /\ pc = "loop"
    /\ IF Len(included) >= MAX_INCLUDED
       THEN /\ pc' = "quit"
            /\ UNCHANGED <<page, all_jobs, idx, log>>
       ELSE \E pg \in site.pages :
            \E fa \in {-1} \cup FailPoints(pg.a), fb \in {-1} \cup FailPoints(pg.b),
               fc \in {-1, 0} :
               /\ page' = IF site.endless /\ page >= site.last THEN page ELSE page + 1
               /\ all_jobs' = merge_jobs(<<strategy_a(pg.a, fa), strategy_b(pg.b, fb),
                                           strategy_c(pg.c, fc)>>)
               /\ idx' = 0
               /\ log' = [(IF fa >= 0 \/ fb >= 0 \/ fc >= 0 THEN Failed("strategy") ELSE log)
                             EXCEPT !.lists =
                                 << [failed |-> fa >= 0, jobs |-> strategy_a(pg.a, fa)],
                                    [failed |-> fb >= 0, jobs |-> strategy_b(pg.b, fb)],
                                    [failed |-> fc >= 0, jobs |-> strategy_c(pg.c, fc)] >>]
               /\ pc' = IF all_jobs' = <<>> THEN "quit" ELSE "classify"
    /\ UNCHANGED <<driver, rssFile, included, existing, now, site, prev, call, ret>>

\* A variant of ClassifyJob without the MAX_INCLUDED test at the head of the
\* loop body.
ClassifyJob_uncapped ==
    /\ pc = "classify"
    /\ idx < Len(all_jobs)
    /\ LET job == all_jobs[idx + 1]
       IN  /\ included' = IF should_include(job.title, job.grade, job.contract_type,
                                            job.category)
                          THEN Append(included, job)
                          ELSE included
           /\ log' = [log EXCEPT !.classified = Append(@, job)]
    /\ idx' = idx + 1
    /\ UNCHANGED <<pc, driver, rssFile, page, all_jobs, existing, now, site, prev,
                   call, ret>>

\* One iteration of the for loop over all_jobs.  The record of the classified
\* postings is kept on the sites that have a last page.
ClassifyJob ==
    /\ pc = "classify"
    /\ idx < Len(all_jobs)
    /\ Len(included) < MAX_INCLUDED
    /\ LET job == all_jobs[idx + 1]
       IN  /\ included' = IF should_include(job.title, job.grade, job.contract_type,
                                            job.category)
                          THEN Append(included, job)
                          ELSE included
           /\ log' = [log EXCEPT !.classified = IF site.endless THEN @ ELSE Append(@, job)]
    /\ idx' = idx + 1
    /\ UNCHANGED <<pc, driver, rssFile, page, all_jobs, existing, now, site, prev,
                   call, ret>>

\* After the for loop: the cap, then find_next_page, which returns False when it
\* finds no link to click or any of its calls raises.
EndPage ==
    /\ pc = "classify"
    /\ idx = Len(all_jobs) \/ Len(included) >= MAX_INCLUDED
    /\ IF Len(included) >= MAX_INCLUDED
       THEN pc' = "quit"
       ELSE \E navigated \in {FALSE} \cup {page < site.last \/ site.endless} :
               pc' = IF navigated THEN "loop" ELSE "quit"
    /\ UNCHANGED <<driver, rssFile, included, page, all_jobs, idx, existing, now,
                   site, log, prev, call, ret>>

\* finally: driver.quit(), then return included; an exception of quit() leaves
\* scrape_jobs and ends the process.
Quit ==
    /\ pc = "quit"
    /\ \E ok \in BOOLEAN :
          IF ok
          THEN pc' = "rss" /\ driver' = "closed" /\ log' = log
          ELSE /\ pc' = "idle"
               /\ driver' = "open"
               /\ log' = [Failed("acquire") EXCEPT !.outcome = "crashed"]
    /\ UNCHANGED <<rssFile, included, page, all_jobs, idx, existing, now, site,
                   prev, call, ret>>

\* truly_new = [j for j in new_jobs if j["link"] not in existing_links]
RECURSIVE TrulyNew(_, _)
TrulyNew(new_jobs, loaded) ==
    IF new_jobs = <<>> THEN <<>>
    ELSE (IF \E i \in 1..Len(loaded) : loaded[i].link = Head(new_jobs).link
          THEN <<>> ELSE <<Head(new_jobs)>>) \o TrulyNew(Tail(new_jobs), loaded)

\* The items generate_rss writes: the loaded ones, then the new ones.
FeedItems(loaded, new_jobs, now_rfc2822) ==
    loaded \o [i \in 1..Len(TrulyNew(new_jobs, loaded)) |->
                  NewItem(TrulyNew(new_jobs, loaded)[i], now_rfc2822)]

generate_rss ==
    /\ pc = "rss"
    /\ existing' = load_existing_feed(rssFile)
    /\ rssFile' = [exists |-> TRUE, wellformed |-> TRUE,
                   items |-> FeedItems(existing', included, now)]
    /\ log' = [(IF rssFile.exists /\ ~rssFile.wellformed THEN Failed("parse") ELSE log)
                  EXCEPT !.outcome = "done"]
    /\ prev' = included
    /\ pc' = "idle"
    /\ UNCHANGED <<driver, included, page, all_jobs, idx, now, site, call, ret>>

\* Between runs the feed file is changed from outside so that ET.parse rejects
\* it (a truncated upload, an unresolved merge in the repository that hosts it).
Damage ==
    /\ pc = "idle"
    /\ rssFile.exists
    /\ rssFile.wellformed
    /\ rssFile' = [rssFile EXCEPT !.wellformed = FALSE]
    /\ log' = [log EXCEPT !.clean = FALSE]
    /\ UNCHANGED <<pc, driver, included, page, all_jobs, idx, existing, now, site,
                   prev, call, ret>>

Next ==
    \/ StartRun
    \/ LoadFirstPage
    \/ ProcessPage
    \/ ClassifyJob
    \/ EndPage
    \/ Quit
    \/ generate_rss
    \/ Damage

Spec == Init /\ [][Next]_vars

SpecLong == InitLong /\ [][Next]_vars

\* One run of the scraper, from the state in which no feed file exists.
InitFirstRun == InitOn([SmallSite EXCEPT !.visits = 1])

SpecFirstRun == InitFirstRun /\ [][Next]_vars

\* One iteration of the for loop, whatever should_include answers: ClassifyJob
\* is such a step, and in the same states it can be taken.
ForStep ==
    /\ pc = "classify"
    /\ idx < Len(all_jobs)
    /\ Len(included) < MAX_INCLUDED
    /\ idx' = idx + 1
    /\ included' \in {included, Append(included, all_jobs[idx + 1])}
    /\ log' \in {log, [log EXCEPT !.classified = Append(@, all_jobs[idx + 1])]}
    /\ UNCHANGED <<pc, driver, rssFile, page, all_jobs, existing, now, site, prev,
                   call, ret>>

\* A step of a run in progress: the process is sequential and, every
\* acquisition call returning, takes its next step.
RunStep == LoadFirstPage \/ ProcessPage \/ ForStep \/ EndPage \/ Quit \/ generate_rss

InitEndless == InitOn(EndlessSite)

SpecEndless == InitEndless /\ [][Next]_vars /\ WF_vars(RunStep)

-----------------------------------------------------------------------------
(* should_include and merge_jobs on their own: the arguments are drawn by the *)
(* initial state, one action applies the function.                            *)

MaxFrags == 3

MaxListLen == 2

RECURSIVE Concats(_, _)
Concats(frags, n) ==
    IF n = 0 THEN {""}
    ELSE Concats(frags, n - 1) \cup {s \o f : s \in Concats(frags, n - 1), f \in frags}

GradeFrags == {"G", "6", "-", " ", "NO", "A", "P-4", "x"}

ExtraGrades ==
    {"SB 3", "LSC10", "sb-2", "P 4", "D1", "P-3/G6", "G-6/P-4", "P-4 G 6", "NO~B",
     "g^6", "G#", "G~6", "G\t6", "G_6", "LSC-10x", "NOC (P-5)", "Internship", "P-9"}

GradeInputs == Concats(GradeFrags, MaxFrags) \cup ExtraGrades

\* title, contract_type, category
OtherInputs ==
    { <<"Programme Analyst", "", "">>,
      <<"Intern", "", "">>,
      <<"Graduate Fellowship Programme", "Fixed Term", "">>,
      <<"Senior Consultant", "", "">>,
      <<"Programme Analyst", "Internship", "">>,
      <<"Programme Analyst", "Individual consultancy", "">>,
      <<"Intern", "", "Consultant roster">>,
      <<"Programme Analyst", "", "Fellow">> }

ClassifyInputs ==
    {[title |-> o[1], grade |-> g, contract_type |-> o[2], category |-> o[3]] :
        g \in GradeInputs, o \in OtherInputs}

PureInit(fn) ==
    /\ pc = fn
    /\ driver = "none"
    /\ rssFile = NoFile
    /\ included = <<>>
    /\ page = 0
    /\ all_jobs = <<>>
    /\ idx = 0
    /\ existing = <<>>
    /\ now = 0
    /\ site = NoPage
    /\ log = NoLog
    /\ prev = <<>>
    /\ ret = <<>>

PureFrame ==
    UNCHANGED <<pc, driver, rssFile, included, page, all_jobs, idx, existing, now,
                site, log, prev, call>>

InitClassify == PureInit("should_include") /\ call \in ClassifyInputs

Classify ==
    /\ pc = "should_include"
    /\ ret = <<>>
    /\ ret' = <<should_include(call.title, call.grade, call.contract_type, call.category)>>
    /\ PureFrame

NextClassify == Classify

SpecClassify == InitClassify /\ [][NextClassify]_vars

\* Candidates of two postings: of the first, a bare one and two equally complete
\* ones that differ.
MergeCands ==
    { Bare(Analyst),
      Job("Programme Analyst", LinkAnalyst, "New York", "", "", "", ""),
      Job("Programme Analyst", LinkAnalyst, "", "P-3", "", "", ""),
      Bare(Intern) }

RECURSIVE SeqsUpTo(_, _)
SeqsUpTo(S, n) ==
    IF n = 0 THEN {<<>>}
    ELSE SeqsUpTo(S, n - 1) \cup {Append(q, x) : q \in SeqsUpTo(S, n - 1), x \in S}

\* One strategy's list of candidates.
MergeInputs == SeqsUpTo(MergeCands, MaxListLen)

\* merge_jobs([jobs_a, jobs_b, jobs_c])
InitMerge ==
    /\ PureInit("merge_jobs")
    /\ \E a \in MergeInputs, b \in MergeInputs, c \in MergeInputs : call = <<a, b, c>>

Merge ==
    /\ pc = "merge_jobs"
    /\ ret = <<>>
    /\ ret' = <<merge_jobs(call)>>
    /\ PureFrame

NextMerge == Merge

SpecMerge == InitMerge /\ [][NextMerge]_vars

-----------------------------------------------------------------------------
(* Properties *)

Links(s) == {s[i].link : i \in 1..Len(s)}

\* A step of generate_rss: the only step from "rss" to "idle".
RssStep == pc = "rss" /\ pc' = "idle"

\* Every item of the feed before the step is an item of the feed after it.
ItemsKept == \A i \in 1..Len(rssFile.items) :
                 \E j \in 1..Len(rssFile'.items) : rssFile'.items[j] = rssFile.items[i]

\* The jobs of a sequence whose link is not in a set, in their order.
RECURSIVE NotIn(_, _)
NotIn(jobs, links) ==
    IF jobs = <<>> THEN <<>>
    ELSE (IF Head(jobs).link \in links THEN <<>> ELSE <<Head(jobs)>>) \o NotIn(Tail(jobs), links)

\* C1: in runs without failures the persisted feed only grows: when the
\* postings of a run are a superset, by link, of those of the run before it,
\* every item of the feed before the run is in the feed after it, unchanged
\* (title, link, description, guid, pubDate).
C1_FeedOnlyGrows ==
    [][(RssStep /\ log.clean /\ Links(prev) \subseteq Links(included)) => ItemsKept]_vars

\* C2: after every run no two items of the persisted feed carry the same link.
C2_UniqueLinks ==
    pc = "idle"
    => \A i, j \in 1..Len(rssFile.items) :
           i # j => rssFile.items[i].link # rssFile.items[j].link

\* C3: the items a run writes are the items of the feed it found, in their
\* order, followed by the newly added postings in the order of classification.
C3_ExistingThenNew ==
    [][(RssStep /\ log.clean)
        => LET old == rssFile.items
               new == rssFile'.items
               added == NotIn(included, Links(old))
           IN  /\ Len(new) = Len(old) + Len(added)
               /\ SubSeq(new, 1, Len(old)) = old
               /\ \A i \in 1..Len(added) : new[Len(old) + i].link = added[i].link]_vars

\* C4: a second run with the same classified postings, on the feed the first
\* run wrote, leaves the item sequence as it is.
C4_SecondRunIdempotent ==
    [][(RssStep /\ log.clean /\ rssFile.exists /\ included = prev)
        => rssFile'.items = rssFile.items]_vars

\* MD5-derived identifiers of the site's links, as CPython computes them.
ExpectedGuid(link) ==
    CASE link = LinkAnalyst -> "7934232426560309"
      [] link = LinkDriver -> "9267987046635990"
      [] link = LinkIntern -> "0095903391778923"
      [] link = LinkConsultant -> "2293768194811710"

IncludesJob(job) == should_include(job.title, job.grade, job.contract_type, job.category)

\* C5: a run that finds the persisted feed empty writes exactly one item per
\* merged candidate the classifier included (grade P-3 is in, grade G-5 is out),
\* in that order, and each item's guid is the 16-digit identifier of its link.
C5_FreshFeed ==
    [][(RssStep /\ rssFile.items = <<>>)
        => LET inc == SelectSeq(log.classified, IncludesJob)
               new == rssFile'.items
           IN  /\ Len(new) = Len(inc)
               /\ \A i \in 1..Len(new) :
                     /\ new[i].link = inc[i].link
                     /\ new[i].title = inc[i].title
                     /\ new[i].guid = ExpectedGuid(new[i].link)
                     /\ Len(new[i].guid) = 16
                     /\ \A k \in 1..16 : Char(new[i].guid, k) \in DigitSet
               /\ \A i \in 1..Len(log.classified) :
                     /\ log.classified[i].grade = "P-3" => log.classified[i].link \in Links(new)
                     /\ log.classified[i].grade = "G-5" => log.classified[i].link \notin Links(new)]_vars

\* C5 witness: no feed file and one page with the candidates Analyst (P-3) and
\* Driver (G-5): the feed holds the analyst's item alone, under the identifier
\* of its link.
C5_Witness ==
    /\ pc = "idle"
    /\ log.outcome = "done"
    /\ log.failures = {}
    /\ existing = <<>>
    /\ log.classified = <<Analyst, Driver>>
    /\ Len(rssFile.items) = 1
    /\ rssFile.items[1].link = LinkAnalyst
    /\ rssFile.items[1].guid = "7934232426560309"

\* C10: items of the feed are not lost in a run in which a failure occurs;
\* here, a run that finds a feed file ET.parse rejects.
C10_KeptOnParseFailure ==
    [][(RssStep /\ "parse" \in log'.failures) => ItemsKept]_vars

\* C6: the consultant rule is an absolute veto: when any of title, grade,
\* contract_type or category contains CONSULTANT or CONSULTANCY after
\* normalization, should_include returns False, whatever the grade and whatever
\* internship or fellowship keywords are present.
C6_ConsultantVeto ==
    (pc = "should_include" /\ ret # <<>>
        /\ \E f \in {"title", "grade", "contract_type", "category"} :
              \E kw \in {"CONSULTANT", "CONSULTANCY"} : Contains(normalize(call[f]), kw))
    => ret[1] = FALSE

\* C6 witness: a consultancy with an included grade (P-4) and an internship
\* title has been classified, and was excluded.
C6_Witness ==
    /\ pc = "should_include"
    /\ ret = <<FALSE>>
    /\ call.title = "Intern"
    /\ call.category = "Consultant roster"
    /\ call.grade = "P-4"

\* A whole-token grade of family G, SB or LSC at position i of the raw grade
\* text, written compact (G6), spaced (G 6) or hyphenated (G-6).
ExcludedTokenAt(s, i) ==
    \E fam \in {"G", "SB", "LSC"}, sep \in {"", " ", "-"} :
        LET d == i + Len(fam) + Len(sep)
            e == DigitsEnd(s, d)
        IN  /\ StartsAt(s, i, fam \o sep)
            /\ i = 1 \/ ~IsWord(Char(s, i - 1))
            /\ e > d
            /\ e > Len(s) \/ ~IsWord(Char(s, e))

ExcludedSpelling(s) ==
    \/ \E i \in 1..Len(s) : ExcludedTokenAt(s, i)
    \/ \E no \in {"NOA", "NOB", "NOC", "NOD", "NO-A", "NO-B", "NO-C", "NO-D"} :
          \E i \in 1..Len(s) : StartsAt(s, i, no)

\* C7: the excluded-grade rule precedes every inclusion rule: when the grade
\* field holds a whole-token G, SB or LSC grade in compact, spaced or hyphenated
\* spelling, or one of NOA..NOD, NO-A..NO-D, should_include returns False, even
\* when the grade also holds P-1..P-5, D-1 or D-2 or a field holds an
\* internship or fellowship keyword.
C7_ExcludedGradeFirst ==
    (pc = "should_include" /\ ret # <<>> /\ ExcludedSpelling(call.grade))
    => ret[1] = FALSE

\* C7 witness: grade "P-4 G 6" (an included and an excluded grade) under the
\* title "Intern", with no consultant keyword anywhere, was excluded.
C7_Witness ==
    /\ pc = "should_include"
    /\ ret = <<FALSE>>
    /\ call.grade = "P-4 G 6"
    /\ call.title = "Intern"
    /\ call.contract_type = ""
    /\ call.category = ""

\* The candidates of the lists in the order merge_jobs meets them.
RECURSIVE Flatten(_)
Flatten(lists) == IF lists = <<>> THEN <<>> ELSE Head(lists) \o Flatten(Tail(lists))

\* The completeness score: the number of non-empty fields.
Score(job) ==
    (IF job.title # "" THEN 1 ELSE 0) + (IF job.link # "" THEN 1 ELSE 0)
    + (IF job.location # "" THEN 1 ELSE 0) + (IF job.grade # "" THEN 1 ELSE 0)
    + (IF job.contract_type # "" THEN 1 ELSE 0) + (IF job.closing_date # "" THEN 1 ELSE 0)
    + (IF job.category # "" THEN 1 ELSE 0)

\* The position of the earliest candidate of a link with the link's best score.
BestOf(flat, link) ==
    CHOOSE k \in 1..Len(flat) :
        /\ flat[k].link = link
        /\ \A m \in 1..Len(flat) : flat[m].link = link => Score(flat[m]) <= Score(flat[k])
        /\ \A m \in 1..(k - 1) : flat[m].link = link => Score(flat[m]) < Score(flat[k])

FirstOf(flat, link) ==
    CHOOSE k \in 1..Len(flat) :
        flat[k].link = link /\ \A m \in 1..(k - 1) : flat[m].link # link

\* C8: merge_jobs returns one candidate per distinct link of its lists: the
\* earliest-met one among those with the link's maximal completeness score; the
\* output is in the order of first appearance of the links.
C8_MergeBestFirstSeen ==
    (pc = "merge_jobs" /\ ret # <<>>)
    => LET flat == Flatten(call)
           out == ret[1]
       IN  /\ \A i, j \in 1..Len(out) : i # j => out[i].link # out[j].link
           /\ Links(out) = Links(flat)
           /\ \A i \in 1..Len(out) : out[i] = flat[BestOf(flat, out[i].link)]
           /\ \A i, j \in 1..Len(out) :
                 i < j => FirstOf(flat, out[i].link) < FirstOf(flat, out[j].link)

\* C8 witness: the first posting's stored candidate was replaced by a more
\* complete one met after the second posting, a later equally complete one was
\* not taken, and the first posting still comes first.
C8_Witness ==
    /\ pc = "merge_jobs"
    /\ call[1] = <<Bare(Analyst), Bare(Intern)>>
    /\ call[2] = <<Job("Programme Analyst", LinkAnalyst, "", "P-3", "", "", "")>>
    /\ call[3] = <<Job("Programme Analyst", LinkAnalyst, "New York", "", "", "", "")>>
    /\ ret = << <<Job("Programme Analyst", LinkAnalyst, "", "P-3", "", "", ""), Bare(Intern)>> >>

\* C9: at every point of a run the in-run accumulation holds at most
\* MAX_INCLUDED (50) postings, so at most 50 enter generate_rss as new_jobs.
C9_CapHolds ==
    /\ Len(included) <= MAX_INCLUDED
    /\ pc = "idle" /\ log.outcome = "done"
          => Len(rssFile.items) <= Len(existing) + MAX_INCLUDED

\* C9 witness: a run reached generate_rss with exactly 50 included postings,
\* having left the rest of its last page unclassified.
C9_Witness ==
    /\ pc = "rss"
    /\ Len(included) = MAX_INCLUDED
    /\ idx < Len(all_jobs)
    /\ page = 2

\* A step that ends a run of the program: generate_rss returns, or an exception
\* leaves scrape_jobs (from create_driver, before the try block, or from
\* driver.quit() in the finally block).
RunEnds == pc' = "idle" /\ (pc # "idle" \/ now' # now)

\* C11: a fatal failure of the page-acquisition collaborator at any point of a
\* run (creating the session, loading the first page, extraction, navigation,
\* closing the session) does not fail the run: the run ends with generate_rss,
\* which is given the postings included before the failure and writes the feed
\* with an item for each of them.  (A failure during extraction or navigation
\* is absorbed by the strategies and by find_next_page; the failures that reach
\* scrape_jobs are those of create_driver, driver.get and driver.quit.)
C11_AcquisitionFailureHandled ==
    [][(RunEnds /\ "acquire" \in log'.failures)
        => /\ RssStep
           /\ log'.outcome = "done"
           /\ prev' = included
           /\ rssFile'.exists
           /\ Links(included) \subseteq Links(rssFile'.items)]_vars

\* C12: a strategy that fails on a page contributes an empty list to that
\* page's merge: none of the candidates it had collected before the exception
\* reach merge_jobs.
C12_FailedStrategyEmpty ==
    \A i \in 1..Len(log.lists) : log.lists[i].failed => log.lists[i].jobs = <<>>

\* C13: every run leaves its page loop, whatever pages the driver supplies:
\* once the first page is requested the run reaches the finally block of
\* scrape_jobs (driver.quit(), after which generate_rss is called); the loop
\* does not go on forever, also over pages that keep yielding candidates none
\* of which is included.
C13_PageLoopTerminates == (pc = "get") ~> (pc = "quit")

=============================================================================
